---- MODULE Spec2Model ----
(***************************************************************************)
(* Storageinator: the hierarchical authorization and directory-tree engine *)
(* of the file-storage API (app/services, app/api).  The document store is *)
(* modelled by one variable per collection; every request handler is a     *)
(* sequence of steps: the reads and checks that precede its first write,   *)
(* then one step per write to the store.  A request in flight occupies a   *)
(* slot of reqs; a request whose checks fail answers with an error status  *)
(* and changes nothing, so it takes no step.                               *)
(***************************************************************************)
EXTENDS Integers, Sequences, FiniteSets, TLC

\* ------------------------------------------------------------------ bounds
MaxDirs == 2       \* directory identifiers referenced at once (Spec, SpecRace)
MaxTreeDirs == 3   \* directory identifiers referenced at once (SpecCascade)
MaxPerms == 3      \* grant identifiers that can be referenced at once
MaxFiles == 2      \* file records stored at once
MaxProcs == 2      \* requests in flight at once (SpecRace)
MaxDepth == 3      \* longest materialized path, in names
MaxVisits == 4     \* identifiers one descendant enumeration may collect (SpecTraversal)

\* ------------------------------------------------------------------ domains
Users == {"u1", "u2"}
Names == {"a"}
NoId == 0
NoHash == ""
Hashes == {"h1", "h2"}
DirIds == 1..MaxDirs
TreeDirIds == 1..MaxTreeDirs
PermIds == 1..MaxPerms
FileIds == 1..MaxFiles
Procs == 1..MaxProcs

\* models/role.py: UserRole and ROLE_PERMISSIONS
UserRole == {"super_admin", "admin", "user", "pending"}

ROLE_PERMISSIONS ==
    [r \in UserRole |->
        CASE r = "super_admin" ->
               [read |-> TRUE, write |-> TRUE, delete |-> TRUE,
                manage_users |-> TRUE, access_all |-> TRUE]
          [] r = "admin" ->
               [read |-> TRUE, write |-> TRUE, delete |-> TRUE,
                manage_users |-> TRUE, access_all |-> FALSE]
          [] r = "user" ->
               [read |-> TRUE, write |-> TRUE, delete |-> FALSE,
                manage_users |-> FALSE, access_all |-> FALSE]
          [] r = "pending" ->
               [read |-> FALSE, write |-> FALSE, delete |-> FALSE,
                manage_users |-> FALSE, access_all |-> FALSE]]

\* models/permission.py: PermissionType
PermissionType == {"read", "write", "delete"}

\* the capability lists a grant request carries
GrantSets == {{"read"}, {"read", "write", "delete"}}

has_permission(role, permission) == ROLE_PERMISSIONS[role][permission]

VARIABLES
    users,          \* users collection: user id -> [role, is_active]
    directories,    \* directories collection: _id -> document
    permissions,    \* permissions collection: set of grant documents
    files,          \* files collection: _id -> document
    reqs,           \* requests in flight: slot -> handler position and locals
    token_blacklist,\* token_blacklist collection: set of [token, expires_at]
    tokens,         \* the tokens issued so far (held by the clients)
    now             \* the clock, in seconds

vars == <<users, directories, permissions, files, reqs, token_blacklist, tokens, now>>

Idle == [op |-> "idle", pc |-> "idle"]

\* ------------------------------------------------------------------ store
StoredDirs == DOMAIN directories

\* materialized path: f"{parent['path']}/{name}" or f"/{name}"
child_path(parent_path, name) == parent_path \o "/" \o name

\* every name of Names is one character long, so a path of n names has 2n characters
PathWithinBound(path) == Len(path) <= 2 * MaxDepth

\* directory ids some document or some request still refers to
SlotDirRefs(r) ==
    (IF "directory_id" \in DOMAIN r THEN {r.directory_id} ELSE {})
    \cup (IF "dir_doc" \in DOMAIN r THEN {r.dir_doc.parent_id} ELSE {})
    \cup (IF "all_ids" \in DOMAIN r THEN {r.all_ids[i] : i \in 1..Len(r.all_ids)} ELSE {})

DirIdsInUse ==
    StoredDirs
    \cup {directories[d].parent_id : d \in StoredDirs}
    \cup {g.directory_id : g \in permissions}
    \cup {files[f].directory_id : f \in DOMAIN files}
    \cup UNION {SlotDirRefs(reqs[p]) : p \in Procs}

PermIdsInUse ==
    {g.id : g \in permissions}
    \cup {reqs[p].existing : p \in {q \in Procs : "existing" \in DOMAIN reqs[q]}}

Min(S) == CHOOSE x \in S : \A y \in S : x <= y

\* str(ObjectId()): an identifier nothing refers to
FreshDirId(ids) == Min(ids \ DirIdsInUse)
FreshPermId == Min(PermIds \ PermIdsInUse)
FreshFileId == Min(FileIds \ DOMAIN files)

\* permissions.find_one({"user_id": u, "directory_id": d})
GrantsOf(user_id, directory_id) ==
    {g \in permissions : g.user_id = user_id /\ g.directory_id = directory_id}

\* ------------------------------------------------------------------ directory_service helpers
is_owner(directory_id, user_id) ==
    /\ directory_id \in StoredDirs
    /\ directories[directory_id].owner_id = user_id

is_public(directory_id) ==
    IF directory_id \in StoredDirs THEN directories[directory_id].is_public ELSE FALSE

\* ------------------------------------------------------------------ permission_service: the resolver
\* The loop of check_permission / get_effective_permissions that builds path_ids:
\*     while current.get("parent_id"):
\*         path_ids.append(current["parent_id"])
\*         current = await directories.find_one({"_id": current["parent_id"]})
\*         if not current: break
\* `current` is a stored document on entry.  raised tells that the loop evaluated
\* current.get(...) on None.
\* the loop without `if not current: break`: its next test reads None
RECURSIVE walk_parents_unguarded(_)
walk_parents_unguarded(current_id) ==
    LET parent_id == directories[current_id].parent_id IN
    IF parent_id = NoId THEN [path_ids |-> << >>, raised |-> FALSE]
    ELSE IF parent_id \notin StoredDirs
         THEN [path_ids |-> <<parent_id>>, raised |-> TRUE]
         ELSE LET rest == walk_parents_unguarded(parent_id) IN
              [path_ids |-> <<parent_id>> \o rest.path_ids, raised |-> rest.raised]

RECURSIVE walk_parents(_)
walk_parents(current_id) ==
    LET parent_id == directories[current_id].parent_id IN
    IF parent_id = NoId THEN [path_ids |-> << >>, raised |-> FALSE]
    ELSE IF parent_id \notin StoredDirs
         THEN [path_ids |-> <<parent_id>>, raised |-> FALSE]
         ELSE LET rest == walk_parents(parent_id) IN
              [path_ids |-> <<parent_id>> \o rest.path_ids, raised |-> rest.raised]

build_path_ids(directory_id) ==
    LET w == walk_parents(directory_id) IN
    [path_ids |-> <<directory_id>> \o w.path_ids, raised |-> w.raised]

\* a lookup that collects the grants of the whole path instead of stopping
\* at the first
all_grants(user_id, path_ids) ==
    UNION {GrantsOf(user_id, path_ids[i]) : i \in 1..Len(path_ids)}

\* for dir_id in path_ids: perm = find_one(user, dir_id); if perm: return it
\* The result is the set holding the first grant found, or {} when none is.
RECURSIVE first_grant(_, _)
first_grant(user_id, path_ids) ==
    IF path_ids = << >> THEN {}
    ELSE LET perm == GrantsOf(user_id, Head(path_ids)) IN
         IF perm # {} THEN perm ELSE first_grant(user_id, Tail(path_ids))

check_permission(user_id, directory_id, permission_type) ==
    IF directory_id \notin StoredDirs THEN FALSE
    ELSE IF directories[directory_id].owner_id = user_id THEN TRUE
    ELSE LET found == first_grant(user_id, build_path_ids(directory_id).path_ids) IN
         \E perm \in found : permission_type \in perm.permissions

\* an effective set gathered from every grant of the path
get_effective_permissions_union(user_id, directory_id) ==
    IF directory_id \notin StoredDirs THEN {}
    ELSE IF directories[directory_id].owner_id = user_id THEN {"read", "write", "delete"}
    ELSE UNION {perm.permissions :
                   perm \in all_grants(user_id, build_path_ids(directory_id).path_ids)}

get_effective_permissions(user_id, directory_id) ==
    IF directory_id \notin StoredDirs THEN {}
    ELSE IF directories[directory_id].owner_id = user_id THEN {"read", "write", "delete"}
    ELSE LET found == first_grant(user_id, build_path_ids(directory_id).path_ids) IN
         UNION {perm.permissions : perm \in found}

can_access_directory(user_id, directory_id) ==
    IF directory_id \notin StoredDirs THEN FALSE
    ELSE IF directories[directory_id].owner_id = user_id THEN TRUE
    ELSE check_permission(user_id, directory_id, "read")

\* ------------------------------------------------------------------ api: authorization entry points
\* deps.py PermissionChecker.__call__: TRUE when it returns True, FALSE when it
\* raises 403.  current_user is the users document read by get_current_user.
PermissionChecker(user_id, directory_id, permission_type) ==
    LET role == users[user_id].role IN
    IF role = "super_admin" THEN TRUE
    ELSE IF permission_type \in {"read", "write"} /\ is_public(directory_id) THEN TRUE
    ELSE IF role = "admin" /\ is_owner(directory_id, user_id) THEN TRUE
    ELSE IF ~has_permission(role, permission_type) THEN FALSE
    ELSE IF is_owner(directory_id, user_id) THEN TRUE
    ELSE check_permission(user_id, directory_id, permission_type)

\* check_file_permission with the public fast path taken for write as for read
check_file_permission_public_write(user_id, directory_id, permission_type) ==
    IF users[user_id].role = "super_admin" THEN TRUE
    ELSE IF permission_type \in {"read", "write"} /\ is_public(directory_id) THEN TRUE
    ELSE IF is_owner(directory_id, user_id) THEN TRUE
    ELSE check_permission(user_id, directory_id, permission_type)

\* files.py check_file_permission
check_file_permission(user_id, directory_id, permission_type) ==
    IF users[user_id].role = "super_admin" THEN TRUE
    ELSE IF permission_type = "read" /\ is_public(directory_id) THEN TRUE
    ELSE IF is_owner(directory_id, user_id) THEN TRUE
    ELSE check_permission(user_id, directory_id, permission_type)

\* files.py delete_file, "Check delete permission": TRUE when no 403 is raised
delete_file_allowed(user_id, directory_id) ==
    IF users[user_id].role # "super_admin"
    THEN IF ~is_owner(directory_id, user_id)
         THEN check_permission(user_id, directory_id, "delete")
         ELSE TRUE
    ELSE TRUE

\* directories.py create_directory, the check made when parent_id is given:
\* TRUE when no 403 is raised
create_directory_allowed(user_id, parent_id) ==
    IF parent_id # NoId
    THEN IF users[user_id].role # "super_admin"
         THEN IF parent_id \in StoredDirs
              THEN IF directories[parent_id].owner_id # user_id
                   THEN check_permission(user_id, parent_id, "write")
                   ELSE TRUE
              ELSE TRUE
         ELSE TRUE
    ELSE TRUE

\* directories.py get_directory on a stored directory: TRUE when it is returned
get_directory_allowed(user_id, directory_id) ==
    IF users[user_id].role = "super_admin" THEN TRUE
    ELSE IF directories[directory_id].is_public THEN TRUE
    ELSE IF directories[directory_id].owner_id = user_id THEN TRUE
    ELSE can_access_directory(user_id, directory_id)

\* the ownership check without the super_admin exemption
owner_only(user_id, directory_id) ==
    directories[directory_id].owner_id = user_id

\* directory_service update_directory / delete_directory, the ownership check:
\* TRUE when no PermissionError is raised
owner_or_super_admin(user_id, directory_id) ==
    ~(directories[directory_id].owner_id # user_id /\ users[user_id].role # "super_admin")

\* ------------------------------------------------------------------ initial state
\* main.py lifespan: empty collections, the super admin created at start-up;
\* the other user has registered (auth_service.register_user: role pending)
\* The store after start-up (create_admin_user) and the registration of a
\* second user; both users hold tokens, which name the user and nothing else
\* and outlive any later change of role.
Init ==
    /\ users = [u \in Users |->
                 [role |-> IF u = "u1" THEN "super_admin" ELSE "pending",
                  is_active |-> TRUE]]
    /\ directories = << >>
    /\ permissions = {}
    /\ files = << >>
    /\ reqs = [p \in Procs |-> Idle]
    /\ token_blacklist = {}
    /\ tokens = {}
    /\ now = 0

\* a dependency that trusts the token alone
token_is_valid(user_id) == user_id \in Users

\* deps.py get_current_user: the token names a stored user (every token here
\* is a well-formed access token that is not blacklisted) and the user is
\* active in the store now
Authenticated(user_id) == users[user_id].is_active

\* auth_service.refresh_access_token for a well-formed refresh token that is
\* not blacklisted
refresh_access_token_status(user_id) ==
    IF ~users[user_id].is_active THEN "401" ELSE "ok"

\* ------------------------------------------------------------------ users.py update_user (role, is_active)
NoRole == "unset"
NoFlag == "unset"

update_user(admin_id, user_id, role, is_active) ==
    /\ Authenticated(admin_id)
    /\ users[admin_id].role \in {"admin", "super_admin"}          \* require_admin
    /\ ~(user_id = admin_id /\ is_active = "false")
    /\ role # NoRole \/ is_active # NoFlag                        \* if not update_doc
    /\ users' = [users EXCEPT
                   ![user_id].role = IF role # NoRole THEN role ELSE @,
                   ![user_id].is_active = IF is_active # NoFlag
                                          THEN is_active = "true" ELSE @]
    /\ UNCHANGED <<directories, permissions, files, reqs, token_blacklist, tokens, now>>

\* ------------------------------------------------------------------ create_directory
new_directory_path(name, parent_id) ==
    IF parent_id # NoId
    THEN child_path(directories[parent_id].path, name)
    ELSE child_path("", name)

\* directories.py create_directory and directory_service.create_directory up to
\* the insert: the status answered, "ok" when the insert is reached
create_directory_status(user_id, name, parent_id) ==
    IF ~create_directory_allowed(user_id, parent_id) THEN "403"
    ELSE IF parent_id # NoId /\ parent_id \notin StoredDirs THEN "400 parent not found"
    ELSE IF \E d \in StoredDirs :
               /\ directories[d].owner_id = user_id
               /\ directories[d].path = new_directory_path(name, parent_id)
         THEN "400 already exists"
    ELSE "ok"

create_directory_check(p, user_id, name, parent_id, public) ==
    /\ reqs[p].pc = "idle"
    /\ Authenticated(user_id)
    /\ create_directory_status(user_id, name, parent_id) = "ok"
    /\ PathWithinBound(new_directory_path(name, parent_id))
    /\ reqs' = [reqs EXCEPT ![p] =
          [op |-> "create_directory", pc |-> "insert",
           dir_doc |-> [name |-> name, owner_id |-> user_id,
                        parent_id |-> parent_id,
                        path |-> new_directory_path(name, parent_id),
                        is_public |-> public]]]
    /\ UNCHANGED <<users, directories, permissions, files, token_blacklist, tokens, now>>

\* directories.insert_one(dir_doc); the index on (owner_id, path) is not unique
create_directory_insert(p, ids) ==
    /\ reqs[p].op = "create_directory" /\ reqs[p].pc = "insert"
    /\ ids \ DirIdsInUse # {}
    /\ directories' = directories @@ (FreshDirId(ids) :> reqs[p].dir_doc)
    /\ reqs' = [reqs EXCEPT ![p] = Idle]
    /\ UNCHANGED <<users, permissions, files, token_blacklist, tokens, now>>

\* ------------------------------------------------------------------ update_directory
NoName == ""

\* directory_service.update_directory up to the update_one
update_directory_status(user_id, directory_id, name) ==
    IF directory_id \notin StoredDirs THEN "404"
    ELSE IF ~owner_or_super_admin(user_id, directory_id) THEN "403"
    ELSE IF /\ name # NoName
            /\ directories[directory_id].parent_id # NoId
            /\ directories[directory_id].parent_id \notin StoredDirs
         THEN "500"                       \* parent['path'] with parent None
    ELSE "ok"

update_directory_check(p, user_id, directory_id, name, public) ==
    /\ reqs[p].pc = "idle"
    /\ Authenticated(user_id)
    /\ update_directory_status(user_id, directory_id, name) = "ok"
    /\ name # NoName \/ public # NoFlag          \* if update_doc:
    /\ reqs' = [reqs EXCEPT ![p] =
          [op |-> "update_directory", pc |-> "update",
           user_id |-> user_id,
           directory_id |-> directory_id,
           name |-> name,
           path |-> IF name = NoName THEN ""
                    ELSE new_directory_path(name, directories[directory_id].parent_id),
           is_public |-> public]]
    /\ UNCHANGED <<users, directories, permissions, files, token_blacklist, tokens, now>>

\* an update that also makes the directory its own parent
update_directory_update_reparent(p) ==
    /\ reqs[p].op = "update_directory" /\ reqs[p].pc = "update"
    /\ directories' =
         IF reqs[p].directory_id \in StoredDirs
         THEN [directories EXCEPT ![reqs[p].directory_id].parent_id = reqs[p].directory_id]
         ELSE directories
    /\ reqs' = [reqs EXCEPT ![p] = Idle]
    /\ UNCHANGED <<users, permissions, files, token_blacklist, tokens, now>>

\* an update that also rewrites the paths of the target's children
update_directory_update_children(p) ==
    /\ reqs[p].op = "update_directory" /\ reqs[p].pc = "update"
    /\ LET r == reqs[p]
           d == r.directory_id
       IN  directories' =
             IF d \in StoredDirs
             THEN [e \in StoredDirs |->
                     IF e = d
                     THEN [directories[e] EXCEPT
                             !.name = IF r.name # NoName THEN r.name ELSE @,
                             !.path = IF r.name # NoName THEN r.path ELSE @,
                             !.is_public = IF r.is_public # NoFlag
                                           THEN r.is_public = "true" ELSE @]
                     ELSE IF directories[e].parent_id = d /\ r.name # NoName
                     THEN [directories[e] EXCEPT
                             !.path = r.path \o "/" \o directories[e].name]
                     ELSE directories[e]]
             ELSE directories
    /\ reqs' = [reqs EXCEPT ![p] = Idle]
    /\ UNCHANGED <<users, permissions, files, token_blacklist, tokens, now>>

\* directories.update_one({"_id": directory_id}, {"$set": update_doc})
update_directory_update(p) ==
    /\ reqs[p].op = "update_directory" /\ reqs[p].pc = "update"
    /\ LET r == reqs[p]
           d == r.directory_id
       IN  directories' =
             IF d \in StoredDirs
             THEN [directories EXCEPT
                     ![d].name = IF r.name # NoName THEN r.name ELSE @,
                     ![d].path = IF r.name # NoName THEN r.path ELSE @,
                     ![d].is_public = IF r.is_public # NoFlag
                                      THEN r.is_public = "true" ELSE @]
             ELSE directories
    /\ reqs' = [reqs EXCEPT ![p] = Idle]
    /\ UNCHANGED <<users, permissions, files, token_blacklist, tokens, now>>

\* ------------------------------------------------------------------ delete_directory
\* an ascending enumeration of a set of identifiers (the order of a cursor)
RECURSIVE SetToSeq(_)
SetToSeq(S) == IF S = {} THEN << >> ELSE <<Min(S)>> \o SetToSeq(S \ {Min(S)})

SeqToSet(q) == {q[i] : i \in 1..Len(q)}

\* directories.find({"parent_id": parent_id})
children_of(parent_id) ==
    SetToSeq({d \in StoredDirs : directories[d].parent_id = parent_id})

\* directory_service._get_descendant_ids: the loop over the queue
\* a loop that does not queue the children it finds
direct_children_only(queue, result) ==
    IF queue = << >> THEN result ELSE result \o children_of(Head(queue))

RECURSIVE descendant_loop(_, _)
descendant_loop(queue, result) ==
    IF queue = << >> THEN result
    ELSE LET children == children_of(Head(queue)) IN
         descendant_loop(Tail(queue) \o children, result \o children)

_get_descendant_ids(directory_id) == descendant_loop(<<directory_id>>, << >>)

\* delete_directory without the test for child directories
delete_directory_status_no_children_check(user_id, directory_id, cascade) ==
    IF directory_id \notin StoredDirs THEN "404"
    ELSE IF ~owner_or_super_admin(user_id, directory_id) THEN "403"
    ELSE IF (\E f \in DOMAIN files : files[f].directory_id = directory_id) /\ ~cascade
         THEN "400 has files"
    ELSE "ok"

\* directory_service.delete_directory up to the first delete
delete_directory_status(user_id, directory_id, cascade) ==
    IF directory_id \notin StoredDirs THEN "404"
    ELSE IF ~owner_or_super_admin(user_id, directory_id) THEN "403"
    ELSE IF children_of(directory_id) # << >> /\ ~cascade THEN "400 has subdirectories"
    ELSE IF (\E f \in DOMAIN files : files[f].directory_id = directory_id) /\ ~cascade
         THEN "400 has files"
    ELSE "ok"

delete_directory_check(p, user_id, directory_id, cascade) ==
    /\ reqs[p].pc = "idle"
    /\ Authenticated(user_id)
    /\ delete_directory_status(user_id, directory_id, cascade) = "ok"
    /\ reqs' = [reqs EXCEPT ![p] =
          [op |-> "delete_directory",
           pc |-> IF cascade THEN "delete_files" ELSE "delete_permissions",
           user_id |-> user_id,
           cascade |-> cascade,
           all_ids |-> IF cascade
                       THEN <<directory_id>> \o _get_descendant_ids(directory_id)
                       ELSE <<directory_id>>]]
    /\ UNCHANGED <<users, directories, permissions, files, token_blacklist, tokens, now>>

\* a first phase that removes the directories of the plan instead of the files
delete_directory_directories_first(p) ==
    /\ reqs[p].op = "delete_directory" /\ reqs[p].pc = "delete_files"
    /\ directories' = [d \in StoredDirs \ SeqToSet(reqs[p].all_ids) |-> directories[d]]
    /\ reqs' = [reqs EXCEPT ![p].pc = "delete_permissions"]
    /\ UNCHANGED <<users, files, permissions, token_blacklist, tokens, now>>

\* files.delete_many({"directory_id": {"$in": all_ids}})
delete_directory_files(p) ==
    /\ reqs[p].op = "delete_directory" /\ reqs[p].pc = "delete_files"
    /\ files' = [f \in {g \in DOMAIN files :
                           files[g].directory_id \notin SeqToSet(reqs[p].all_ids)}
                  |-> files[f]]
    /\ reqs' = [reqs EXCEPT ![p].pc = "delete_permissions"]
    /\ UNCHANGED <<users, directories, permissions, token_blacklist, tokens, now>>

\* permissions.delete_many({"directory_id": {"$in": all_ids}}), or for the
\* directory alone when cascade is false
delete_directory_permissions(p) ==
    /\ reqs[p].op = "delete_directory" /\ reqs[p].pc = "delete_permissions"
    /\ permissions' = {g \in permissions :
                          g.directory_id \notin SeqToSet(reqs[p].all_ids)}
    /\ reqs' = [reqs EXCEPT ![p].pc = "delete_directories"]
    /\ UNCHANGED <<users, directories, files, token_blacklist, tokens, now>>

\* directories.delete_many({"_id": {"$in": all_ids}}), or delete_one
delete_directory_directories(p) ==
    /\ reqs[p].op = "delete_directory" /\ reqs[p].pc = "delete_directories"
    /\ directories' = [d \in StoredDirs \ SeqToSet(reqs[p].all_ids) |-> directories[d]]
    /\ reqs' = [reqs EXCEPT ![p] = Idle]
    /\ UNCHANGED <<users, permissions, files, token_blacklist, tokens, now>>

\* ------------------------------------------------------------------ grant_permission
\* permissions.py grant_permission and permission_service.grant_permission up
\* to the write (every user of Users has an email, so the grantee is found)
\* a check that also lets a super_admin manage the grants of any directory
grant_permission_status_admin(granted_by, directory_id, user_id) ==
    IF ~(\/ is_owner(directory_id, granted_by)
         \/ directory_id \in StoredDirs /\ users[granted_by].role = "super_admin")
    THEN "403"
    ELSE IF user_id \notin DOMAIN users THEN "400 user not found"
    ELSE IF user_id = granted_by THEN "400 cannot grant to yourself"
    ELSE "ok"

grant_permission_status(granted_by, directory_id, user_id) ==
    IF ~is_owner(directory_id, granted_by) THEN "403"
    ELSE IF user_id \notin DOMAIN users THEN "400 user not found"
    ELSE IF user_id = granted_by THEN "400 cannot grant to yourself"
    ELSE "ok"

grant_permission_check(p, granted_by, directory_id, user_id, perms) ==
    /\ reqs[p].pc = "idle"
    /\ Authenticated(granted_by)
    /\ grant_permission_status(granted_by, directory_id, user_id) = "ok"
    /\ LET existing == GrantsOf(user_id, directory_id) IN
       reqs' = [reqs EXCEPT ![p] =
          [op |-> "grant_permission", pc |-> "write",
           user_id |-> user_id, directory_id |-> directory_id,
           perms |-> perms, granted_by |-> granted_by,
           existing |-> IF existing # {}
                        THEN (CHOOSE g \in existing : TRUE).id ELSE NoId]]
    /\ UNCHANGED <<users, directories, permissions, files, token_blacklist, tokens, now>>

\* insert_one with no unique index on the collection
insert_permission_no_index(perm_doc) == permissions \cup {perm_doc}

\* permissions.insert_one under the unique index on (user_id, directory_id) of
\* mongodb.py create_indexes: the resulting collection, unchanged when the key
\* is already there (DuplicateKeyError)
insert_permission(perm_doc) ==
    IF GrantsOf(perm_doc.user_id, perm_doc.directory_id) # {}
    THEN permissions
    ELSE permissions \cup {perm_doc}

\* an update that adds the capabilities to the stored ones ($addToSet)
update_permission_union(id, perms) ==
    {IF g.id = id THEN [g EXCEPT !.permissions = @ \cup perms] ELSE g : g \in permissions}

\* an update that replaces the whole document, written by the grantee
update_permission_replace(id, perms) ==
    {IF g.id = id
     THEN [g EXCEPT !.permissions = perms, !.granted_by = g.user_id]
     ELSE g : g \in permissions}

\* permissions.update_one({"_id": id}, {"$set": {"permissions": perms}})
update_permission(id, perms) ==
    {IF g.id = id THEN [g EXCEPT !.permissions = perms] ELSE g : g \in permissions}

\* the write of grant_permission: update the grant found, or insert a new one
grant_permission_write(p) ==
    /\ reqs[p].op = "grant_permission" /\ reqs[p].pc = "write"
    /\ LET r == reqs[p] IN
       IF r.existing # NoId
       THEN permissions' = update_permission(r.existing, r.perms)
       ELSE /\ PermIds \ PermIdsInUse # {}
            /\ permissions' = insert_permission(
                  [id |-> FreshPermId, user_id |-> r.user_id,
                   directory_id |-> r.directory_id, permissions |-> r.perms,
                   granted_by |-> r.granted_by, created_at |-> now])
    /\ reqs' = [reqs EXCEPT ![p] = Idle]
    /\ UNCHANGED <<users, directories, files, token_blacklist, tokens, now>>

\* ------------------------------------------------------------------ revoke_permission
revoke_permission_status(revoked_by, directory_id) ==
    IF directory_id \notin StoredDirs THEN "400 directory not found"
    ELSE IF directories[directory_id].owner_id # revoked_by THEN "403"
    ELSE "ok"

revoke_permission_check(p, revoked_by, directory_id, user_id) ==
    /\ reqs[p].pc = "idle"
    /\ Authenticated(revoked_by)
    /\ revoke_permission_status(revoked_by, directory_id) = "ok"
    /\ reqs' = [reqs EXCEPT ![p] =
          [op |-> "revoke_permission", pc |-> "delete",
           user_id |-> user_id, directory_id |-> directory_id,
           revoked_by |-> revoked_by]]
    /\ UNCHANGED <<users, directories, permissions, files, token_blacklist, tokens, now>>

\* permissions.py revoke_permission: 404 when delete_one deleted nothing
revoke_permission_result(user_id, directory_id) ==
    IF GrantsOf(user_id, directory_id) = {} THEN "404" ELSE "204"

\* permissions.delete_one({"user_id": user_id, "directory_id": directory_id})
revoke_permission_delete(p) ==
    /\ reqs[p].op = "revoke_permission" /\ reqs[p].pc = "delete"
    /\ LET found == GrantsOf(reqs[p].user_id, reqs[p].directory_id) IN
       permissions' = IF found = {} THEN permissions
                      ELSE permissions \ {CHOOSE g \in found : TRUE}
    /\ reqs' = [reqs EXCEPT ![p] = Idle]
    /\ UNCHANGED <<users, directories, files, token_blacklist, tokens, now>>

\* ------------------------------------------------------------------ request_upload
\* files.py request_upload_url and file_service.request_upload up to the insert
\* (the MIME type and the size are taken as allowed)
request_upload_status(user_id, directory_id) ==
    IF ~check_file_permission(user_id, directory_id, "write") THEN "403"
    ELSE IF directory_id \notin StoredDirs THEN "400 directory not found"
    ELSE "ok"

request_upload_check(p, user_id, directory_id) ==
    /\ reqs[p].pc = "idle"
    /\ Authenticated(user_id)
    /\ request_upload_status(user_id, directory_id) = "ok"
    /\ reqs' = [reqs EXCEPT ![p] =
          [op |-> "request_upload", pc |-> "insert",
           user_id |-> user_id, directory_id |-> directory_id]]
    /\ UNCHANGED <<users, directories, permissions, files, token_blacklist, tokens, now>>

\* files.insert_one(file_doc): an unconfirmed record
request_upload_insert(p) ==
    /\ reqs[p].op = "request_upload" /\ reqs[p].pc = "insert"
    /\ FileIds \ DOMAIN files # {}
    /\ files' = files @@ (FreshFileId :>
          [directory_id |-> reqs[p].directory_id, owner_id |-> reqs[p].user_id,
           confirmed |-> FALSE, sha256 |-> NoHash, is_public |-> FALSE])
    /\ reqs' = [reqs EXCEPT ![p] = Idle]
    /\ UNCHANGED <<users, directories, permissions, token_blacklist, tokens, now>>

\* ------------------------------------------------------------------ file reads
\* file_service.get_file: files.find_one({"_id": file_id, "confirmed": True});
\* the set holding the document found
get_file(file_id) ==
    IF file_id \in DOMAIN files /\ files[file_id].confirmed THEN {files[file_id]} ELSE {}

\* a lookup by identifier alone
get_file_any(file_id) ==
    IF file_id \in DOMAIN files THEN {files[file_id]} ELSE {}

\* file_service.get_public_file
get_public_file(file_id) ==
    {f \in get_file_any(file_id) : f.confirmed /\ f.is_public}

\* file_service.list_files: the ids of the responses
list_files(directory_id) ==
    {f \in DOMAIN files : files[f].directory_id = directory_id /\ files[f].confirmed}

\* files.py list_files
list_files_status(user_id, directory_id) ==
    IF ~check_file_permission(user_id, directory_id, "read") THEN "403" ELSE "ok"

\* files.py get_preview_url / get_download_url and the service call they end with
download_url_status(user_id, file_id) ==
    IF get_file(file_id) = {} THEN "404"
    ELSE IF \E f \in get_file(file_id) :
               ~check_file_permission(user_id, f.directory_id, "read") THEN "403"
    ELSE IF get_file(file_id) = {} THEN "404"
    ELSE "ok"

\* public.py get_public_file_access: no user, no directory lookup
public_file_access_status(file_id) ==
    IF get_public_file(file_id) = {} THEN "404"
    ELSE IF get_file(file_id) = {} THEN "404"
    ELSE "ok"

\* ------------------------------------------------------------------ confirm_upload
\* file_service.confirm_upload up to the storage check
confirm_upload_status(user_id, file_id) ==
    IF file_id \notin DOMAIN files THEN "400 file not found"
    ELSE IF files[file_id].owner_id # user_id THEN "500"   \* HTTPException without status_code
    ELSE IF files[file_id].confirmed THEN "400 already confirmed"
    ELSE "ok"

\* check_object_exists answers object_exists
confirm_upload_check(p, user_id, file_id, sha256, object_exists) ==
    /\ reqs[p].pc = "idle"
    /\ Authenticated(user_id)
    /\ confirm_upload_status(user_id, file_id) = "ok"
    /\ reqs' = [reqs EXCEPT ![p] =
          [op |-> "confirm_upload", pc |-> IF object_exists THEN "update" ELSE "delete",
           user_id |-> user_id, file_id |-> file_id, sha256 |-> sha256]]
    /\ UNCHANGED <<users, directories, permissions, files, token_blacklist, tokens, now>>

\* files.delete_one({"_id": file_id}), then ValueError
confirm_upload_delete(p) ==
    /\ reqs[p].op = "confirm_upload" /\ reqs[p].pc = "delete"
    /\ files' = [f \in DOMAIN files \ {reqs[p].file_id} |-> files[f]]
    /\ reqs' = [reqs EXCEPT ![p] = Idle]
    /\ UNCHANGED <<users, directories, permissions, token_blacklist, tokens, now>>

\* an update that stores the hash and leaves the flag
set_sha256_only(file_id, sha256) ==
    IF file_id \in DOMAIN files
    THEN [files EXCEPT ![file_id].sha256 = sha256]
    ELSE files

\* files.update_one({"_id": file_id}, {"$set": {"confirmed": True, "sha256": sha256}})
set_confirmed(file_id, sha256) ==
    IF file_id \in DOMAIN files
    THEN [files EXCEPT ![file_id].confirmed = TRUE, ![file_id].sha256 = sha256]
    ELSE files

confirm_upload_update(p) ==
    /\ reqs[p].op = "confirm_upload" /\ reqs[p].pc = "update"
    /\ files' = set_confirmed(reqs[p].file_id, reqs[p].sha256)
    /\ reqs' = [reqs EXCEPT ![p] = Idle]
    /\ UNCHANGED <<users, directories, permissions, token_blacklist, tokens, now>>

\* ------------------------------------------------------------------ update_file
\* files.py update_file and file_service.update_file up to the update_one
update_file_status(user_id, file_id) ==
    IF get_file(file_id) = {} THEN "404"
    ELSE IF /\ users[user_id].role # "super_admin"
            /\ \E f \in get_file(file_id) : ~is_owner(f.directory_id, user_id)
         THEN "403"
    ELSE IF get_file_any(file_id) = {} THEN "404"
    ELSE "ok"

update_file_check(p, user_id, file_id, public) ==
    /\ reqs[p].pc = "idle"
    /\ Authenticated(user_id)
    /\ update_file_status(user_id, file_id) = "ok"
    /\ reqs' = [reqs EXCEPT ![p] =
          [op |-> "update_file", pc |-> "update",
           user_id |-> user_id, file_id |-> file_id, is_public |-> public]]
    /\ UNCHANGED <<users, directories, permissions, files, token_blacklist, tokens, now>>

\* files.update_one({"_id": file_id}, {"$set": {"is_public": ...}})
update_file_update(p) ==
    /\ reqs[p].op = "update_file" /\ reqs[p].pc = "update"
    /\ files' = IF reqs[p].file_id \in DOMAIN files
                THEN [files EXCEPT ![reqs[p].file_id].is_public = reqs[p].is_public]
                ELSE files
    /\ reqs' = [reqs EXCEPT ![p] = Idle]
    /\ UNCHANGED <<users, directories, permissions, token_blacklist, tokens, now>>

\* ------------------------------------------------------------------ delete_file
\* a delete decided by the directory alone
delete_file_status_directory_only(user_id, file_id) ==
    IF get_file(file_id) = {} THEN "404"
    ELSE IF \E f \in get_file(file_id) : ~delete_file_allowed(user_id, f.directory_id)
         THEN "403 no delete permission"
    ELSE "ok"

\* files.py delete_file and file_service.delete_file up to the delete_one
delete_file_status(user_id, file_id) ==
    IF get_file(file_id) = {} THEN "404"
    ELSE IF \E f \in get_file(file_id) : ~delete_file_allowed(user_id, f.directory_id)
         THEN "403 no delete permission"
    ELSE IF get_file_any(file_id) = {} THEN "404"
    ELSE IF \E f \in get_file_any(file_id) :
               f.owner_id # user_id /\ users[user_id].role # "super_admin"
         THEN "403 not authorized"
    ELSE "ok"

delete_file_check(p, user_id, file_id) ==
    /\ reqs[p].pc = "idle"
    /\ Authenticated(user_id)
    /\ delete_file_status(user_id, file_id) = "ok"
    /\ reqs' = [reqs EXCEPT ![p] =
          [op |-> "delete_file", pc |-> "delete", user_id |-> user_id, file_id |-> file_id]]
    /\ UNCHANGED <<users, directories, permissions, files, token_blacklist, tokens, now>>

\* files.delete_one({"_id": file_id})
delete_file_delete(p) ==
    /\ reqs[p].op = "delete_file" /\ reqs[p].pc = "delete"
    /\ files' = [f \in DOMAIN files \ {reqs[p].file_id} |-> files[f]]
    /\ reqs' = [reqs EXCEPT ![p] = Idle]
    /\ UNCHANGED <<users, directories, permissions, token_blacklist, tokens, now>>

\* ------------------------------------------------------------------ specifications
\* Spec: one request at a time (slot 1), roles changed by the administrators.
Next ==
    \/ \E a, u \in Users, r \in UserRole : update_user(a, u, r, NoFlag)
    \/ \E u \in Users, n \in Names, d \in {NoId} \cup DirIds, b \in BOOLEAN :
          create_directory_check(1, u, n, d, b)
    \/ create_directory_insert(1, DirIds)
    \/ \E u \in Users, d \in DirIds, b \in {"true", "false"} :
          update_directory_check(1, u, d, NoName, b)
    \/ update_directory_update(1)
    \/ \E u \in Users, d \in DirIds, c \in BOOLEAN :
          delete_directory_check(1, u, d, c)
    \/ delete_directory_files(1)
    \/ delete_directory_permissions(1)
    \/ delete_directory_directories(1)
    \/ \E o, u \in Users, d \in DirIds, s \in GrantSets :
          grant_permission_check(1, o, d, u, s)
    \/ grant_permission_write(1)
    \/ \E o, u \in Users, d \in DirIds :
          revoke_permission_check(1, o, d, u)
    \/ revoke_permission_delete(1)

Spec == Init /\ [][Next]_vars

\* SpecRace: MaxProcs requests interleaved at their store calls; roles as at start-up.
NextRace ==
    \/ \E p \in Procs, u \in Users, n \in Names, d \in {NoId} \cup DirIds :
          create_directory_check(p, u, n, d, FALSE)
    \/ \E p \in Procs : create_directory_insert(p, DirIds)
    \/ \E p \in Procs, u \in Users, d \in DirIds, c \in BOOLEAN :
          delete_directory_check(p, u, d, c)
    \/ \E p \in Procs : delete_directory_files(p)
    \/ \E p \in Procs : delete_directory_permissions(p)
    \/ \E p \in Procs : delete_directory_directories(p)
    \/ \E p \in Procs, o, u \in Users, d \in DirIds, s \in GrantSets :
          grant_permission_check(p, o, d, u, s)
    \/ \E p \in Procs : grant_permission_write(p)
    \/ \E p \in Procs, o, u \in Users, d \in DirIds :
          revoke_permission_check(p, o, d, u)
    \/ \E p \in Procs : revoke_permission_delete(p)

SpecRace == Init /\ [][NextRace]_vars

\* SpecCascade: one request at a time over trees of up to MaxTreeDirs
\* directories, with files and grants attached.
NextCascade ==
    \/ \E u \in Users, n \in Names, d \in {NoId} \cup TreeDirIds :
          create_directory_check(1, u, n, d, FALSE)
    \/ create_directory_insert(1, TreeDirIds)
    \/ \E u \in Users, d \in TreeDirIds, c \in BOOLEAN :
          delete_directory_check(1, u, d, c)
    \/ delete_directory_files(1)
    \/ delete_directory_permissions(1)
    \/ delete_directory_directories(1)
    \/ \E o, u \in Users, d \in TreeDirIds :
          grant_permission_check(1, o, d, u, {"read"})
    \/ grant_permission_write(1)
    \/ \E u \in Users, d \in TreeDirIds : request_upload_check(1, u, d)
    \/ request_upload_insert(1)

SpecCascade == Init /\ [][NextCascade]_vars

\* SpecRename: one request at a time; directories are created, renamed and
\* deleted under two names, and receive grants and files.
RenameNames == {"a", "b"}

NextRename ==
    \/ \E u \in Users, n \in RenameNames, d \in {NoId} \cup DirIds :
          create_directory_check(1, u, n, d, FALSE)
    \/ create_directory_insert(1, DirIds)
    \/ \E u \in Users, d \in DirIds, n \in RenameNames :
          update_directory_check(1, u, d, n, NoFlag)
    \/ update_directory_update(1)
    \/ \E u \in Users, d \in DirIds, c \in BOOLEAN :
          delete_directory_check(1, u, d, c)
    \/ delete_directory_files(1)
    \/ delete_directory_permissions(1)
    \/ delete_directory_directories(1)
    \/ \E o, u \in Users, d \in DirIds :
          grant_permission_check(1, o, d, u, {"read"})
    \/ grant_permission_write(1)
    \/ \E u \in Users, d \in DirIds : request_upload_check(1, u, d)
    \/ request_upload_insert(1)

SpecRename == Init /\ [][NextRename]_vars

\* SpecFiles: one request at a time over one directory level; files are
\* requested, confirmed, published and deleted.
NextFiles ==
    \/ \E u \in Users, n \in Names, b \in BOOLEAN :
          create_directory_check(1, u, n, NoId, b)
    \/ create_directory_insert(1, DirIds)
    \/ \E o, u \in Users, d \in DirIds, s \in GrantSets :
          grant_permission_check(1, o, d, u, s)
    \/ grant_permission_write(1)
    \/ \E u \in Users, d \in DirIds : request_upload_check(1, u, d)
    \/ request_upload_insert(1)
    \/ \E u \in Users, f \in FileIds, h \in Hashes, e \in BOOLEAN :
          confirm_upload_check(1, u, f, h, e)
    \/ confirm_upload_delete(1)
    \/ confirm_upload_update(1)
    \/ \E u \in Users, f \in FileIds, b \in BOOLEAN : update_file_check(1, u, f, b)
    \/ update_file_update(1)
    \/ \E u \in Users, f \in FileIds : delete_file_check(1, u, f)
    \/ delete_file_delete(1)

SpecFiles == Init /\ [][NextFiles]_vars

\* SpecLive: one request at a time; administrators change roles and
\* activation between the requests.
NextLive ==
    \/ \E a, u \in Users, r \in UserRole \cup {NoRole}, f \in {"true", "false", NoFlag} :
          update_user(a, u, r, f)
    \/ \E u \in Users, n \in Names, d \in {NoId} \cup DirIds :
          create_directory_check(1, u, n, d, FALSE)
    \/ create_directory_insert(1, DirIds)
    \/ \E u \in Users, d \in DirIds, b \in {"true", "false"} :
          update_directory_check(1, u, d, NoName, b)
    \/ update_directory_update(1)
    \/ \E u \in Users, d \in DirIds, c \in BOOLEAN :
          delete_directory_check(1, u, d, c)
    \/ delete_directory_files(1)
    \/ delete_directory_permissions(1)
    \/ delete_directory_directories(1)

SpecLive == Init /\ [][NextLive]_vars

\* ------------------------------------------------------------------ _get_descendant_ids, step by step
\* The loop of _get_descendant_ids as the interpreter runs it, one iteration
\* of `while queue:` per step, over stores whose parent_id links are arbitrary.

\* result = [], queue = [directory_id]
get_descendant_ids_start(p, directory_id) ==
    /\ reqs[p].pc = "idle"
    /\ directory_id \in StoredDirs
    /\ reqs' = [reqs EXCEPT ![p] =
          [op |-> "_get_descendant_ids", pc |-> "while",
           queue |-> <<directory_id>>, result |-> << >>]]
    /\ UNCHANGED <<users, directories, permissions, files, token_blacklist, tokens, now>>

\* parent_id = queue.pop(0); every child found is appended to result and queue
get_descendant_ids_iterate(p) ==
    /\ reqs[p].op = "_get_descendant_ids" /\ reqs[p].pc = "while"
    /\ reqs[p].queue # << >>
    /\ Len(reqs[p].result) < MaxVisits
    /\ LET children == children_of(Head(reqs[p].queue)) IN
       reqs' = [reqs EXCEPT ![p].queue = Tail(@) \o children,
                            ![p].result = @ \o children]
    /\ UNCHANGED <<users, directories, permissions, files, token_blacklist, tokens, now>>

\* the queue is empty: return result
get_descendant_ids_return(p) ==
    /\ reqs[p].op = "_get_descendant_ids" /\ reqs[p].pc = "while"
    /\ reqs[p].queue = << >>
    /\ reqs' = [reqs EXCEPT ![p] = Idle]
    /\ UNCHANGED <<users, directories, permissions, files, token_blacklist, tokens, now>>

\* stores of up to MaxTreeDirs directories of one owner with any parent_id links
InitTraversal ==
    /\ users = [u \in Users |->
                 [role |-> IF u = "u1" THEN "super_admin" ELSE "pending",
                  is_active |-> TRUE]]
    /\ \E ids \in SUBSET TreeDirIds : \E parent \in [ids -> {NoId} \cup TreeDirIds] :
          directories = [d \in ids |->
              [name |-> "a", path |-> "/a", parent_id |-> parent[d],
               owner_id |-> "u1", is_public |-> FALSE]]
    /\ permissions = {}
    /\ files = << >>
    /\ reqs = [p \in Procs |-> Idle]
    /\ token_blacklist = {}
    /\ tokens = {}
    /\ now = 0

NextTraversal ==
    \/ \E d \in TreeDirIds : get_descendant_ids_start(1, d)
    \/ get_descendant_ids_iterate(1)
    \/ get_descendant_ids_return(1)

SpecTraversal == InitTraversal /\ [][NextTraversal]_vars

\* ------------------------------------------------------------------ directory listing
\* a listing that adds no public directories
get_user_directories_owned_and_shared(user_id, user_role) ==
    IF user_role = "super_admin" THEN SetToSeq(StoredDirs)
    ELSE LET owned == {d \in StoredDirs : directories[d].owner_id = user_id}
             shared_ids == {g.directory_id : g \in {h \in permissions : h.user_id = user_id}}
         IN  SetToSeq(owned) \o SetToSeq((StoredDirs \cap shared_ids) \ owned)

\* directory_service.get_user_directories: the ids of the responses, in the
\* order they are appended (owned, then public, then shared; each cursor in
\* identifier order)
get_user_directories(user_id, user_role) ==
    IF user_role = "super_admin" THEN SetToSeq(StoredDirs)
    ELSE LET owned == SetToSeq({d \in StoredDirs : directories[d].owner_id = user_id})
             owned_ids == SeqToSet(owned)
             public == SetToSeq({d \in StoredDirs :
                                    directories[d].is_public /\ d \notin owned_ids})
             result_ids == owned_ids \cup SeqToSet(public)
             shared_ids == {g.directory_id : g \in {h \in permissions : h.user_id = user_id}}
             shared == SetToSeq({d \in StoredDirs : d \in shared_ids /\ d \notin result_ids})
         IN  owned \o public \o shared

\* a tree builder that makes a root of every node
get_directory_tree_flat(user_id, user_role) ==
    LET all_dirs == get_user_directories(user_id, user_role) IN
    [roots |-> all_dirs, children |-> [n \in SeqToSet(all_dirs) |-> << >>]]

\* directory_service.get_directory_tree: the roots list and each node's
\* children list, as sequences of ids
get_directory_tree(user_id, user_role) ==
    LET all_dirs == get_user_directories(user_id, user_role)
        dir_map == SeqToSet(all_dirs)
        attached(d) == /\ directories[d].parent_id # NoId
                       /\ directories[d].parent_id \in dir_map
    IN  [roots |-> SelectSeq(all_dirs, LAMBDA d : ~attached(d)),
         children |-> [n \in dir_map |->
             SelectSeq(all_dirs, LAMBDA d : attached(d) /\ directories[d].parent_id = n)]]

\* SpecShare: one request at a time; directories are created and deleted and
\* receive grants whose capability list may lack read.
ShareSets == {{"read"}, {"write"}}

NextShare ==
    \/ \E u \in Users, n \in Names, d \in {NoId} \cup DirIds :
          create_directory_check(1, u, n, d, FALSE)
    \/ create_directory_insert(1, DirIds)
    \/ \E o, u \in Users, d \in DirIds, s \in ShareSets :
          grant_permission_check(1, o, d, u, s)
    \/ grant_permission_write(1)
    \/ \E o, u \in Users, d \in DirIds :
          revoke_permission_check(1, o, d, u)
    \/ revoke_permission_delete(1)
    \/ \E u \in Users, d \in DirIds, c \in BOOLEAN :
          delete_directory_check(1, u, d, c)
    \/ delete_directory_files(1)
    \/ delete_directory_permissions(1)
    \/ delete_directory_directories(1)

SpecShare == Init /\ [][NextShare]_vars

\* SpecCascadeRace: MaxProcs requests interleaved at their store calls; every
\* delete is a cascade delete, racing creates, uploads and grants.
NextCascadeRace ==
    \/ \E p \in Procs, u \in Users, n \in Names, d \in {NoId} \cup DirIds :
          create_directory_check(p, u, n, d, FALSE)
    \/ \E p \in Procs : create_directory_insert(p, DirIds)
    \/ \E p \in Procs, u \in Users, d \in DirIds :
          delete_directory_check(p, u, d, TRUE)
    \/ \E p \in Procs : delete_directory_files(p)
    \/ \E p \in Procs : delete_directory_permissions(p)
    \/ \E p \in Procs : delete_directory_directories(p)
    \/ \E p \in Procs, o, u \in Users, d \in DirIds :
          grant_permission_check(p, o, d, u, {"read"})
    \/ \E p \in Procs : grant_permission_write(p)
    \/ \E p \in Procs, u \in Users, d \in DirIds : request_upload_check(p, u, d)
    \/ \E p \in Procs : request_upload_insert(p)

SpecCascadeRace == Init /\ [][NextCascadeRace]_vars

\* ================================================================== claims
NonOwnerPairs == {<<u, d>> \in Users \X StoredDirs : directories[d].owner_id # u}

\* the user holds no grant on any identifier the resolver walks from d
NoGrantOnPath(u, d) == first_grant(u, build_path_ids(d).path_ids) = {}

\* ------------------------------------------------------------------ C1
\* C1 (as claimed): every permission entry point -- check_permission,
\* PermissionChecker, check_file_permission -- allows the owner of a directory
\* each of read, write and delete on it, whatever the owner's role.
C1_OwnerAllowedEverywhere ==
    \A d \in StoredDirs, a \in PermissionType :
        LET u == directories[d].owner_id IN
        /\ check_permission(u, d, a)
        /\ PermissionChecker(u, d, a)
        /\ check_file_permission(u, d, a)

\* ------------------------------------------------------------------ C4
\* C4 (as claimed): a non-owner whose role is user is allowed delete on no
\* directory by any delete authorization path -- PermissionChecker, and the
\* check of the file delete handler -- whatever grants exist.
C4_RoleCeilingOnDelete ==
    \A <<u, d>> \in NonOwnerPairs :
        users[u].role = "user" =>
            /\ ~PermissionChecker(u, d, "delete")
            /\ ~delete_file_allowed(u, d)

\* ------------------------------------------------------------------ C5
PublicNoGrant(u, d) ==
    /\ directories[d].is_public
    /\ users[u].role # "super_admin"
    /\ NoGrantOnPath(u, d)

C6_GlobalOverride ==
    \A u \in Users, d \in StoredDirs :
        users[u].role = "super_admin" =>
            /\ \A a \in PermissionType :
                  PermissionChecker(u, d, a) /\ check_file_permission(u, d, a)
            /\ delete_file_allowed(u, d)
            /\ create_directory_allowed(u, d)
            /\ get_directory_allowed(u, d)
            /\ \A n \in Names \cup {NoName} : update_directory_status(u, d, n) # "403"
            /\ \A c \in BOOLEAN : delete_directory_status(u, d, c) # "403"

\* a super_admin facing a private directory of another user, with no grant
C6_Witness ==
    \E <<u, d>> \in NonOwnerPairs :
        /\ users[u].role = "super_admin"
        /\ ~directories[d].is_public
        /\ NoGrantOnPath(u, d)
        /\ users[directories[d].owner_id].role # "super_admin"

\* ------------------------------------------------------------------ C8
GrantWriteStep(p) ==
    /\ reqs[p].op = "grant_permission" /\ reqs[p].pc = "write"
    /\ reqs'[p].pc = "idle"

\* C8: when no other request runs between its lookup and its write, a grant
\* request for capability set S leaves exactly one grant record for its
\* (grantee, directory) pair, holding exactly S -- not the union with what
\* was stored -- and leaves the collection unchanged when S was stored already.
C8_GrantUpsertReplaces ==
    [][\A p \in Procs : GrantWriteStep(p) =>
          LET r == reqs[p]
              before == GrantsOf(r.user_id, r.directory_id)
              after == {g \in permissions' : g.user_id = r.user_id
                                            /\ g.directory_id = r.directory_id}
          IN  /\ Cardinality(after) = 1
              /\ \A g \in after : g.permissions = r.perms
              /\ (\A g \in before : g.permissions = r.perms) /\ before # {}
                    => permissions' = permissions
              /\ {g \in permissions' : g \notin after} = permissions \ before]_vars

\* a second grant about to be written over a stored one whose set is not
\* contained in the new one
C8_Witness ==
    \E p \in Procs :
        /\ reqs[p].op = "grant_permission" /\ reqs[p].pc = "write"
        /\ reqs[p].existing # NoId
        /\ \E g \in GrantsOf(reqs[p].user_id, reqs[p].directory_id) :
              /\ g.id = reqs[p].existing
              /\ ~(g.permissions \subseteq reqs[p].perms)

\* ------------------------------------------------------------------ the parent chain
\* the stored directories from d upward, following parent_id while it names
\* a stored directory
RECURSIVE StoredChain(_)
StoredChain(d) ==
    LET parent == directories[d].parent_id IN
    <<d>> \o (IF parent # NoId /\ parent \in StoredDirs THEN StoredChain(parent) ELSE << >>)

\* the chain of d ends at a parent_id that names no stored directory
BrokenChain(d) ==
    LET chain == StoredChain(d) IN
    /\ directories[chain[Len(chain)]].parent_id # NoId
    /\ directories[chain[Len(chain)]].parent_id \notin StoredDirs

\* the nearest directory of the chain carrying a grant for u has a in its set
NearestGrantAllows(u, d, a) ==
    LET chain == StoredChain(d) IN
    \E i \in 1..Len(chain) :
        /\ \A j \in 1..(i - 1) : GrantsOf(u, chain[j]) = {}
        /\ \E g \in GrantsOf(u, chain[i]) : a \in g.permissions

\* ------------------------------------------------------------------ C2
\* C2: when a non-owner holds a grant on d whose set lacks a, and a grant on a
\* proper ancestor of d whose set has a, check_permission denies a on d.
C2_Shadowing ==
    \A <<u, d>> \in NonOwnerPairs : \A a \in PermissionType :
        LET chain == StoredChain(d) IN
        ( /\ GrantsOf(u, d) # {}
          /\ \A g \in GrantsOf(u, d) : a \notin g.permissions
          /\ \E i \in 2..Len(chain) : \E g \in GrantsOf(u, chain[i]) : a \in g.permissions )
        => ~check_permission(u, d, a)

\* a {read} grant on a directory under an ancestor granted read, write, delete
C2_Witness ==
    \E <<u, d>> \in NonOwnerPairs :
        LET chain == StoredChain(d) IN
        /\ Len(chain) >= 2
        /\ \E g \in GrantsOf(u, d) : g.permissions = {"read"}
        /\ \E g \in GrantsOf(u, chain[2]) : "write" \in g.permissions
        /\ directories[chain[2]].owner_id # u
        /\ ~check_permission(u, d, "write")
        /\ check_permission(u, chain[2], "write")

\* ------------------------------------------------------------------ C3
\* C3 (as claimed): for a non-owner and a stored directory d, check_permission
\* is true exactly when the nearest directory on d's parent chain that carries
\* a grant for the user has the action in its set, and false when no directory
\* of the chain carries one.
C3_Inheritance ==
    \A <<u, d>> \in NonOwnerPairs : \A a \in PermissionType :
        check_permission(u, d, a) <=> NearestGrantAllows(u, d, a)

C9_SingleGrantPerPair ==
    /\ [](\A g1, g2 \in permissions :
            (g1.user_id = g2.user_id /\ g1.directory_id = g2.directory_id) => g1 = g2)
    /\ [][\A p \in Procs :
            ( /\ GrantWriteStep(p)
              /\ reqs[p].existing = NoId
              /\ GrantsOf(reqs[p].user_id, reqs[p].directory_id) # {} )
            => permissions' = permissions]_vars

\* a request that found no grant is about to insert, and another request's
\* record for the same pair is already stored
C9_Witness ==
    \E p \in Procs :
        /\ reqs[p].op = "grant_permission" /\ reqs[p].pc = "write"
        /\ reqs[p].existing = NoId
        /\ \E g \in GrantsOf(reqs[p].user_id, reqs[p].directory_id) :
              g.permissions # reqs[p].perms

\* ------------------------------------------------------------------ C10
\* the stored directories other than d whose parent chain passes through d
Descendants(d) == {x \in StoredDirs \ {d} : d \in SeqToSet(StoredChain(x))}

CascadeFinalStep(p) ==
    /\ reqs[p].op = "delete_directory" /\ reqs[p].pc = "delete_directories"
    /\ reqs[p].cascade
    /\ reqs[p].all_ids[1] \in StoredDirs
    /\ directories[reqs[p].all_ids[1]].owner_id = reqs[p].user_id
    /\ reqs'[p].pc = "idle"

\* C10: on every directory tree _get_descendant_ids(d) lists each direct and
\* transitive descendant of d once and nothing else, and when a cascade delete
\* of d by its owner, run with no other request, completes, the store holds no
\* directory of {d} and its descendants, and no file record or grant whose
\* directory_id is one of them.
C10_CascadeComplete ==
    /\ [](\A d \in StoredDirs :
            LET ids == _get_descendant_ids(d) IN
            /\ SeqToSet(ids) = Descendants(d)
            /\ Len(ids) = Cardinality(Descendants(d)))
    /\ [][\A p \in Procs : CascadeFinalStep(p) =>
            LET gone == {reqs[p].all_ids[1]} \cup Descendants(reqs[p].all_ids[1]) IN
            /\ gone \cap (DOMAIN directories') = {}
            /\ \A f \in DOMAIN files' : files'[f].directory_id \notin gone
            /\ \A g \in permissions' : g.directory_id \notin gone]_vars

\* an owner's cascade delete planned over a chain of three directories, with a
\* file and a grant below the top of the chain
C10_Witness ==
    \E p \in Procs :
        /\ reqs[p].op = "delete_directory" /\ reqs[p].pc = "delete_files"
        /\ reqs[p].cascade
        /\ Len(reqs[p].all_ids) = 3
        /\ directories[reqs[p].all_ids[1]].owner_id = reqs[p].user_id
        /\ \E f \in DOMAIN files : files[f].directory_id \in SeqToSet(Tail(reqs[p].all_ids))
        /\ \E g \in permissions : g.directory_id \in SeqToSet(Tail(reqs[p].all_ids))

\* ------------------------------------------------------------------ C11
HasChildOrFile(d) ==
    \/ \E x \in StoredDirs : directories[x].parent_id = d
    \/ \E f \in DOMAIN files : files[f].directory_id = d

NonCascadeDelete(p) == reqs[p].op = "delete_directory" /\ ~reqs[p].cascade

\* C11: with one request at a time, delete_directory with cascade=false on a
\* directory that has a child directory or a file record is refused (400 for
\* the owner or a super_admin) before any write, so no such request ever gets
\* to its deletes; on a directory with neither, its two deletes remove exactly
\* the grants on that directory and then exactly that directory, and touch no
\* file record.
C11_NonCascadeDelete ==
    /\ [](\A d \in StoredDirs : \A u \in Users :
            HasChildOrFile(d) =>
                delete_directory_status(u, d, FALSE) \in
                    {"403", "400 has subdirectories", "400 has files"})
    /\ [](\A p \in Procs : NonCascadeDelete(p) =>
            /\ Len(reqs[p].all_ids) = 1
            /\ ~HasChildOrFile(reqs[p].all_ids[1]))
    /\ [][\A p \in Procs : NonCascadeDelete(p) =>
            LET d == reqs[p].all_ids[1] IN
            /\ files' = files
            /\ (reqs[p].pc = "delete_permissions" /\ reqs'[p].pc = "delete_directories") =>
                  /\ permissions' = {g \in permissions : g.directory_id # d}
                  /\ directories' = directories
            /\ (reqs[p].pc = "delete_directories" /\ reqs'[p].pc = "idle") =>
                  /\ permissions' = permissions
                  /\ DOMAIN directories' = StoredDirs \ {d}
                  /\ \A x \in DOMAIN directories' : directories'[x] = directories[x]
                  /\ \A g \in permissions' : g.directory_id # d]_vars

\* a non-cascade delete about to remove the grant on a leaf directory, while
\* the directory above it, having a child, refuses the same request
C11_Witness ==
    \E p \in Procs :
        /\ NonCascadeDelete(p) /\ reqs[p].pc = "delete_permissions"
        /\ \E g \in permissions : g.directory_id = reqs[p].all_ids[1]
        /\ \E g \in permissions : g.directory_id # reqs[p].all_ids[1]
        /\ \E e \in StoredDirs :
              /\ directories[reqs[p].all_ids[1]].parent_id = e
              /\ delete_directory_status(directories[e].owner_id, e, FALSE)
                    = "400 has subdirectories"
        /\ \E e \in StoredDirs : \E f \in DOMAIN files :
              /\ files[f].directory_id = e
              /\ delete_directory_status(directories[e].owner_id, e, FALSE) = "400 has files"

\* ------------------------------------------------------------------ C12
\* the nodes of a forest, listed as the response nests them
RECURSIVE forest_nodes(_, _)
forest_nodes(tree, ids) ==
    IF ids = << >> THEN << >>
    ELSE <<Head(ids)>> \o forest_nodes(tree, tree.children[Head(ids)])
                       \o forest_nodes(tree, Tail(ids))

tree_nodes(u) ==
    LET tree == get_directory_tree(u, users[u].role) IN forest_nodes(tree, tree.roots)

VisibilitySet(u) ==
    {d \in StoredDirs : \/ directories[d].owner_id = u
                        \/ directories[d].is_public
                        \/ GrantsOf(u, d) # {}}

\* C12: for a user who is not super_admin the directories appearing in
\* get_directory_tree are exactly those the user owns, the public ones and
\* those carrying a grant record for the user; a private directory of another
\* owner with no grant for the user does not appear, whether or not its parent
\* does.  For a super_admin they are all stored directories.
C12_VisibilitySet ==
    \A u \in Users :
        LET nodes == SeqToSet(tree_nodes(u)) IN
        /\ users[u].role # "super_admin" =>
              /\ nodes = VisibilitySet(u)
              /\ \A d \in StoredDirs :
                    ( /\ directories[d].owner_id # u
                      /\ ~directories[d].is_public
                      /\ GrantsOf(u, d) = {} ) => d \notin nodes
        /\ users[u].role = "super_admin" => nodes = StoredDirs

\* a public root shown to a user without its private child, which the user
\* neither owns nor holds a grant on
C12_Witness ==
    \E u \in Users : \E a, b \in StoredDirs :
        /\ users[u].role # "super_admin"
        /\ directories[b].parent_id = a
        /\ directories[a].is_public /\ directories[a].owner_id # u
        /\ ~directories[b].is_public /\ directories[b].owner_id # u
        /\ GrantsOf(u, b) = {}
        /\ tree_nodes(u) = <<a>>

\* ------------------------------------------------------------------ C13
Visible(u) == IF users[u].role = "super_admin" THEN StoredDirs ELSE VisibilitySet(u)

Occurrences(q, x) == Cardinality({i \in 1..Len(q) : q[i] = x})

\* C13: in the forest of get_directory_tree every visible directory appears
\* exactly once: in the children list of its parent's node, and nowhere else,
\* when its parent_id is set and the parent is visible; in the roots list, and
\* in no children list, otherwise.  No node stands for a directory outside the
\* visibility set.
C13_TreeAssembly ==
    \A u \in Users :
        LET tree == get_directory_tree(u, users[u].role)
            nodes == forest_nodes(tree, tree.roots)
            vis == Visible(u)
        IN  /\ SeqToSet(nodes) \subseteq vis
            /\ DOMAIN tree.children \subseteq vis
            /\ \A d \in vis :
                  LET parent == directories[d].parent_id IN
                  /\ Occurrences(nodes, d) = 1
                  /\ IF parent # NoId /\ parent \in vis
                     THEN /\ Occurrences(tree.children[parent], d) = 1
                          /\ Occurrences(tree.roots, d) = 0
                          /\ \A n \in vis \ {parent} : Occurrences(tree.children[n], d) = 0
                     ELSE /\ Occurrences(tree.roots, d) = 1
                          /\ \A n \in vis : Occurrences(tree.children[n], d) = 0

\* a chain of three directories whose top the user cannot see: the middle one
\* is a root of the user's forest and the lowest one its child
C13_Witness ==
    \E u \in Users : \E x, y, z \in StoredDirs :
        /\ users[u].role # "super_admin"
        /\ directories[y].parent_id = x /\ directories[z].parent_id = y
        /\ x \notin Visible(u) /\ y \in Visible(u) /\ z \in Visible(u)
        /\ get_directory_tree(u, users[u].role).roots = <<y>>
        /\ get_directory_tree(u, users[u].role).children[y] = <<z>>

\* ------------------------------------------------------------------ C14
\* C14: in every store state, for every user, directory id (stored or not) and
\* action, check_permission is true exactly when the action is in
\* get_effective_permissions; the owner's set is {read, write, delete}; for an
\* id that names no stored directory the set is empty and the check false.
C14_EffectiveMirrorsCheck ==
    \A u \in Users : \A d \in DirIds :
        LET eff == get_effective_permissions(u, d) IN
        /\ \A a \in PermissionType : check_permission(u, d, a) <=> a \in eff
        /\ (d \in StoredDirs /\ directories[d].owner_id = u) => eff = PermissionType
        /\ d \notin StoredDirs =>
              /\ eff = {}
              /\ \A a \in PermissionType : ~check_permission(u, d, a)

\* a non-owner whose {read} grant on a directory hides a wider grant on its
\* parent
C14_Witness ==
    \E <<u, d>> \in NonOwnerPairs :
        LET chain == StoredChain(d) IN
        /\ Len(chain) = 2
        /\ get_effective_permissions(u, d) = {"read"}
        /\ ~check_permission(u, d, "write")
        /\ get_effective_permissions(u, chain[2]) = PermissionType
        /\ directories[chain[2]].owner_id # u

\* ------------------------------------------------------------------ C15
\* C15 (as claimed): after any sequence of create_directory, update_directory
\* (rename) and delete_directory operations no two stored directories have the
\* same owner_id and the same path.
C15_PathUniquePerOwner ==
    \A d1, d2 \in StoredDirs :
        ( /\ directories[d1].owner_id = directories[d2].owner_id
          /\ directories[d1].path = directories[d2].path ) => d1 = d2

\* ------------------------------------------------------------------ C16
ConfirmedFiles == {f \in DOMAIN files : files[f].confirmed}

\* C16 (as claimed): for a confirmed file, whether a requester may preview or
\* download it, reach it through the public route, or delete it is what the
\* requester's authorization on the file's directory says: the file's
\* is_public flag opens nothing the directory denies, and the file's owner_id
\* closes nothing the directory allows.
C16_NoFileAcl ==
    \A u \in Users : \A f \in ConfirmedFiles :
        LET d == files[f].directory_id IN
        /\ download_url_status(u, f) = "ok" <=> check_file_permission(u, d, "read")
        /\ public_file_access_status(f) = "ok" => check_file_permission(u, d, "read")
        /\ delete_file_status(u, f) = "ok" <=> delete_file_allowed(u, d)

\* C16 (amended): for a confirmed file, listing, preview and download are
\* decided by the requester's read authorization on the file's directory and
\* by nothing in the file record; the public route is open exactly when the
\* file's is_public flag is set, whatever the directory says; delete needs the
\* directory's delete decision and, besides, that the requester is the file's
\* owner or a super_admin.
C16_FileFlagsOnPublicRouteAndDelete ==
    \A u \in Users : \A f \in ConfirmedFiles :
        LET d == files[f].directory_id IN
        /\ download_url_status(u, f) = "ok" <=> check_file_permission(u, d, "read")
        /\ (list_files_status(u, d) = "ok" /\ f \in list_files(d))
              <=> check_file_permission(u, d, "read")
        /\ public_file_access_status(f) = "ok" <=> files[f].is_public
        /\ delete_file_status(u, f) = "ok" <=>
              /\ delete_file_allowed(u, d)
              /\ files[f].owner_id = u \/ users[u].role = "super_admin"

\* a public file in a directory its reader may not read, and a file its
\* directory's owner may not delete because another user uploaded it
C16_Witness ==
    /\ \E u \in Users : \E f \in ConfirmedFiles :
          /\ files[f].is_public
          /\ ~check_file_permission(u, files[f].directory_id, "read")
          /\ public_file_access_status(f) = "ok"
    /\ \E u \in Users : \E f \in ConfirmedFiles :
          /\ is_owner(files[f].directory_id, u)
          /\ files[f].owner_id # u
          /\ delete_file_status(u, f) = "403 not authorized"

\* ------------------------------------------------------------------ C17
MayMutate(u, d) == directories[d].owner_id = u \/ users[u].role = "super_admin"

DirectoryRequestStep(p) ==
    /\ reqs[p].op \in {"update_directory", "delete_directory"}
    /\ reqs'[p] # reqs[p]

\* C17 (as claimed): update_directory and delete_directory issued by a user
\* who is neither the directory's owner nor a super_admin are refused with 403,
\* whatever grants the user holds, and every step that removes or modifies a
\* stored directory belongs to a request whose user is that directory's owner
\* or a super_admin.
C17_OwnershipRevalidated ==
    /\ [](\A u \in Users : \A d \in StoredDirs :
            ~MayMutate(u, d) =>
                /\ \A n \in Names \cup {NoName} : update_directory_status(u, d, n) = "403"
                /\ \A c \in BOOLEAN : delete_directory_status(u, d, c) = "403")
    /\ [][\A d \in StoredDirs :
            (d \notin DOMAIN directories' \/ directories'[d] # directories[d]) =>
                \E p \in Procs :
                    /\ DirectoryRequestStep(p)
                    /\ MayMutate(reqs[p].user_id, d)]_vars

\* ------------------------------------------------------------------ C18
ConfirmUpdateStep(p, f) ==
    /\ reqs[p].op = "confirm_upload" /\ reqs[p].pc = "update"
    /\ reqs[p].file_id = f
    /\ reqs[p].user_id = files[f].owner_id
    /\ reqs'[p].pc = "idle"

\* C18: with one request at a time, a file record has a hash only if it is
\* confirmed; a new record is unconfirmed; confirmed and sha256 change only in
\* the update of a confirm_upload request of the file's owner whose storage
\* check found the object, and confirmed changes only from false to true; a
\* confirm whose storage check found nothing removes the record; a confirm of
\* a confirmed file is refused; and list_files, get_file, preview/download and
\* the public route answer with confirmed files only.
C18_ConfirmationLifecycle ==
    /\ [](\A f \in DOMAIN files :
            /\ files[f].sha256 # NoHash => files[f].confirmed
            /\ files[f].confirmed =>
                  \A u \in Users : confirm_upload_status(u, f) # "ok"
            /\ ~files[f].confirmed =>
                  /\ get_file(f) = {} /\ get_public_file(f) = {}
                  /\ f \notin list_files(files[f].directory_id)
                  /\ public_file_access_status(f) = "404"
                  /\ \A u \in Users : download_url_status(u, f) = "404")
    /\ [][/\ \A f \in DOMAIN files' \ DOMAIN files :
                ~files'[f].confirmed /\ files'[f].sha256 = NoHash
          /\ \A f \in DOMAIN files \cap DOMAIN files' :
                (files'[f].confirmed # files[f].confirmed \/ files'[f].sha256 # files[f].sha256)
                => /\ ~files[f].confirmed /\ files'[f].confirmed
                   /\ \E p \in Procs : ConfirmUpdateStep(p, f)
          /\ \A p \in Procs :
                (reqs[p].op = "confirm_upload" /\ reqs[p].pc = "delete" /\ reqs'[p].pc = "idle")
                => reqs[p].file_id \notin DOMAIN files']_vars

\* a confirmed file carrying its hash, while the confirm of another file is
\* about to remove the record because the object is missing
C18_Witness ==
    /\ \E f \in DOMAIN files : files[f].confirmed /\ files[f].sha256 \in Hashes
    /\ \E p \in Procs :
          /\ reqs[p].op = "confirm_upload" /\ reqs[p].pc = "delete"
          /\ reqs[p].file_id \in DOMAIN files
          /\ ~files[reqs[p].file_id].confirmed

\* ------------------------------------------------------------------ C19
\* the user a request in flight acts for
RequestUser(r) == IF "user_id" \in DOMAIN r THEN r.user_id ELSE r.dir_doc.owner_id

RequestDirectory(r) == IF "directory_id" \in DOMAIN r THEN r.directory_id ELSE r.all_ids[1]

\* C19: every request is decided on the role and the is_active flag the store
\* holds when the request is made: a request is admitted only while its user
\* is active, an update or delete of a directory only while its user is the
\* owner or holds the role super_admin at that time, a change of a user record
\* only while some active user holds the role admin or super_admin at that
\* time; and a refresh token yields no tokens for a deactivated user.
C19_RoleAndActivationLive ==
    /\ [](\A u \in Users :
            ~users[u].is_active => /\ ~Authenticated(u)
                                   /\ refresh_access_token_status(u) = "401")
    /\ [][\A p \in Procs :
            (reqs[p].pc = "idle" /\ reqs'[p].pc # "idle") =>
                LET u == RequestUser(reqs'[p]) IN
                /\ users[u].is_active
                /\ reqs'[p].op \in {"update_directory", "delete_directory"} =>
                      \/ directories[RequestDirectory(reqs'[p])].owner_id = u
                      \/ users[u].role = "super_admin"]_vars
    /\ [][users' # users =>
            \E a \in Users : /\ users[a].is_active
                             /\ users[a].role \in {"admin", "super_admin"}]_vars

\* the first super_admin, demoted and deactivated by an administrator it
\* appointed, still owning the directory it created
C19_Witness ==
    /\ ~users["u1"].is_active /\ users["u1"].role = "user"
    /\ \E d \in StoredDirs : directories[d].owner_id = "u1"
    /\ users["u2"].role = "admin"
    /\ \E d \in StoredDirs : directories[d].owner_id = "u2"

\* ------------------------------------------------------------------ C20
CascadeDelete(p) == reqs[p].op = "delete_directory" /\ reqs[p].cascade

\* C20: with one request at a time, a cascade delete removes the files of its
\* plan, then the grants, then the directories, each in one step that touches
\* nothing else; so in every state, the states between its phases included,
\* every file record and every grant refers to a stored directory.
C20_CascadeOrdering ==
    /\ [](/\ \A f \in DOMAIN files : files[f].directory_id \in StoredDirs
          /\ \A g \in permissions : g.directory_id \in StoredDirs)
    /\ [][\A p \in Procs : (CascadeDelete(p) /\ reqs'[p] # reqs[p]) =>
            LET plan == SeqToSet(reqs[p].all_ids) IN
            \/ /\ reqs[p].pc = "delete_files" /\ reqs'[p].pc = "delete_permissions"
               /\ DOMAIN files' = {f \in DOMAIN files : files[f].directory_id \notin plan}
               /\ permissions' = permissions /\ directories' = directories
            \/ /\ reqs[p].pc = "delete_permissions" /\ reqs'[p].pc = "delete_directories"
               /\ permissions' = {g \in permissions : g.directory_id \notin plan}
               /\ files' = files /\ directories' = directories
            \/ /\ reqs[p].pc = "delete_directories" /\ reqs'[p].pc = "idle"
               /\ DOMAIN directories' = StoredDirs \ plan
               /\ files' = files /\ permissions' = permissions]_vars

\* a cascade delete stopped after its first phase: the files of the plan are
\* gone, its grants and its directories are still stored
C20_Witness ==
    \E p \in Procs :
        /\ CascadeDelete(p) /\ reqs[p].pc = "delete_permissions"
        /\ Len(reqs[p].all_ids) >= 2
        /\ SeqToSet(reqs[p].all_ids) \subseteq StoredDirs
        /\ \A f \in DOMAIN files : files[f].directory_id \notin SeqToSet(reqs[p].all_ids)
        /\ \E f \in DOMAIN files : files[f].directory_id \in StoredDirs
        /\ \E g \in permissions : g.directory_id \in SeqToSet(reqs[p].all_ids)

\* ------------------------------------------------------------------ C21
NoRepeats(q) == \A i, j \in 1..Len(q) : q[i] = q[j] => i = j

\* C21 (as claimed): whatever the parent_id links of the store, cycles
\* included, the descendant enumeration never collects an identifier twice.
C21_NoRevisit ==
    \A p \in Procs :
        reqs[p].op = "_get_descendant_ids" => NoRepeats(reqs[p].result)

\* ------------------------------------------------------------------ C22
\* the identifiers reached from d by following parent_id links n times or fewer
RECURSIVE AncestorIds(_, _)
AncestorIds(d, n) ==
    IF n = 0 \/ d \notin StoredDirs \/ directories[d].parent_id = NoId THEN {}
    ELSE {directories[d].parent_id} \cup AncestorIds(directories[d].parent_id, n - 1)

\* C22: after any sequence of create_directory, update_directory and
\* delete_directory from the empty store, no stored directory is reached again
\* by following parent_id links from it, and the walk of check_permission
\* ends after at most one identifier per stored directory and the missing one
\* of a broken link.
C22_AcyclicTree ==
    /\ \A d \in StoredDirs : d \notin AncestorIds(d, Cardinality(StoredDirs))
    /\ \A d \in StoredDirs :
          LET walk == build_path_ids(d).path_ids IN
          /\ Len(walk) <= Cardinality(StoredDirs) + 1
          /\ NoRepeats(walk)

\* a directory under a parent that was renamed after the directory was made
C22_Witness ==
    \E d \in StoredDirs :
        LET parent == directories[d].parent_id IN
        /\ parent \in StoredDirs
        /\ directories[d].path # child_path(directories[parent].path, directories[d].name)
        /\ build_path_ids(d).path_ids = <<d, parent>>

\* ------------------------------------------------------------------ C23
LostCreateRace(p) ==
    /\ reqs[p].op = "create_directory" /\ reqs[p].pc = "insert"
    /\ \E d \in StoredDirs :
          /\ directories[d].owner_id = reqs[p].dir_doc.owner_id
          /\ directories[d].path = reqs[p].dir_doc.path

\* C23 (as claimed): when create_directory requests of one owner for the same
\* parent and name are interleaved, the insert of a request that finds the
\* owner's path already stored is rejected and stores nothing, so no two
\* stored directories have the same owner, parent and name.
C23_DuplicateCreateRejected ==
    /\ [][\A p \in Procs :
            (LostCreateRace(p) /\ reqs'[p].pc = "idle") => directories' = directories]_vars
    /\ [](\A d1, d2 \in StoredDirs :
            ( /\ directories[d1].owner_id = directories[d2].owner_id
              /\ directories[d1].parent_id = directories[d2].parent_id
              /\ directories[d1].name = directories[d2].name ) => d1 = d2)

\* ------------------------------------------------------------------ C24
RenameStep(p) ==
    /\ reqs[p].op = "update_directory" /\ reqs[p].pc = "update"
    /\ reqs[p].name # NoName
    /\ reqs'[p].pc = "idle"

\* C24: an update_directory with a new name sets the target's name and sets
\* its path to the parent's current path + "/" + name ("/" + name for a
\* root); the target's parent_id, owner_id and is_public, every other
\* directory (descendants of the target included), all files and all grants
\* are unchanged.
C24_RenameFrame ==
    [][\A p \in Procs :
         RenameStep(p) =>
            LET d == reqs[p].directory_id IN
            /\ DOMAIN directories' = DOMAIN directories
            /\ directories'[d].name = reqs[p].name
            /\ directories'[d].path =
                  IF directories[d].parent_id = NoId
                  THEN "/" \o reqs[p].name
                  ELSE directories[directories[d].parent_id].path \o "/" \o reqs[p].name
            /\ directories'[d].parent_id = directories[d].parent_id
            /\ directories'[d].owner_id = directories[d].owner_id
            /\ directories'[d].is_public = directories[d].is_public
            /\ \A e \in StoredDirs \ {d} : directories'[e] = directories[e]
            /\ files' = files
            /\ permissions' = permissions]_vars

\* a renamed directory that has a child, a file and a grant: the child keeps
\* the path built from the old name
C24_Witness ==
    \E d, e \in StoredDirs :
        /\ directories[e].parent_id = d
        /\ directories[d].name = "b"
        /\ directories[e].path = "/a/a"
        /\ \E f \in DOMAIN files : files[f].directory_id = d
        /\ \E g \in permissions : g.directory_id = d
        /\ reqs[1] = Idle

\* ------------------------------------------------------------------ C25
\* an email that belongs to no user
NoUser == "nobody"

GrantRequestStep(p) ==
    /\ reqs[p].op = "grant_permission" /\ reqs[p].pc = "write"
    /\ is_owner(reqs[p].directory_id, reqs[p].granted_by)
    /\ reqs[p].user_id \in DOMAIN users
    /\ reqs[p].user_id # reqs[p].granted_by

RevokeRequestStep(p) ==
    /\ reqs[p].op = "revoke_permission" /\ reqs[p].pc = "delete"
    /\ is_owner(reqs[p].directory_id, reqs[p].revoked_by)
    /\ revoke_permission_result(reqs[p].user_id, reqs[p].directory_id) = "204"
    /\ permissions' = permissions \ GrantsOf(reqs[p].user_id, reqs[p].directory_id)

\* C25: grant_permission and revoke_permission are accepted only from the
\* owner of a stored directory (a super_admin who is not the owner gets 403),
\* a grant only for an existing grantee other than the requester; the
\* permissions collection changes only in an accepted grant or revoke (or a
\* directory delete), and a revoke of a pair without a grant answers 404 and
\* leaves the collection as it is.
C25_GrantManagementOwnerOnly ==
    /\ [](\A o \in Users, d \in DirIds, u \in Users \cup {NoUser} :
            /\ grant_permission_status(o, d, u) = "ok" =>
                  /\ d \in StoredDirs /\ directories[d].owner_id = o
                  /\ u \in DOMAIN users /\ u # o
            /\ revoke_permission_status(o, d) = "ok" =>
                  d \in StoredDirs /\ directories[d].owner_id = o
            /\ (d \in StoredDirs /\ directories[d].owner_id # o) =>
                  /\ grant_permission_status(o, d, u) = "403"
                  /\ revoke_permission_status(o, d) = "403")
    /\ [][permissions' # permissions =>
            \E p \in Procs : \/ GrantRequestStep(p)
                             \/ RevokeRequestStep(p)
                             \/ reqs[p].op = "delete_directory"]_vars
    /\ [][\A p \in Procs :
            ( /\ reqs[p].op = "revoke_permission" /\ reqs[p].pc = "delete"
              /\ reqs'[p].pc = "idle"
              /\ revoke_permission_result(reqs[p].user_id, reqs[p].directory_id) = "404" )
            => permissions' = permissions]_vars

\* the super_admin is refused on a directory of another user that carries a
\* grant written by its owner, while a revoke of the owner for a pair without
\* a grant is at its delete
C25_Witness ==
    \E d \in StoredDirs :
        /\ directories[d].owner_id = "u2"
        /\ users["u1"].role = "super_admin"
        /\ grant_permission_status("u1", d, "u2") = "403"
        /\ \E g \in permissions : g.directory_id = d /\ g.granted_by = "u2"
        /\ \E e \in StoredDirs :
              /\ reqs[1].op = "revoke_permission" /\ reqs[1].directory_id = e
              /\ revoke_permission_result(reqs[1].user_id, e) = "404"

\* ------------------------------------------------------------------ tokens
\* the clock stops at MaxTime; token lifetimes in clock seconds
\* (settings.access_token_expire_minutes, settings.refresh_token_expire_days)
MaxTime == 2
AccessLife == 1
RefreshLife == 2

\* security.create_access_token / create_refresh_token: the claims of the
\* signed token; jwt.encode writes exp as whole seconds
create_access_token(user_id) ==
    [sub |-> user_id, exp |-> now + AccessLife, type |-> "access"]

create_refresh_token(user_id) ==
    [sub |-> user_id, exp |-> now + RefreshLife, type |-> "refresh"]

\* security.create_tokens
create_tokens(user_id) == {create_access_token(user_id), create_refresh_token(user_id)}

\* security.decode_token: TRUE when a payload is returned; jwt.decode raises
\* ExpiredSignatureError when exp < now, both in whole seconds
decode_token(token) == token \in tokens /\ ~(token.exp < now)

\* blacklist.find_one({"token": token})
blacklisted(token) == \E b \in token_blacklist : b.token = token

\* deps.get_current_user
get_current_user_status(token) ==
    IF blacklisted(token) THEN "401 revoked"
    ELSE IF ~decode_token(token) THEN "401 invalid"
    ELSE IF token.type # "access" THEN "401 invalid type"
    ELSE IF token.sub \notin DOMAIN users THEN "401 user not found"
    ELSE IF ~users[token.sub].is_active THEN "403"
    ELSE "ok"

\* auth_service.refresh_access_token up to create_tokens
refresh_token_status(token) ==
    IF blacklisted(token) THEN "401"
    ELSE IF ~decode_token(token) \/ token.type # "refresh" THEN "401"
    ELSE IF token.sub \notin DOMAIN users \/ ~users[token.sub].is_active THEN "401"
    ELSE "ok"

\* blacklist.insert_one({"token": token, "expires_at": payload.exp}) under the
\* unique index on "token": unchanged on DuplicateKeyError
blacklist_insert(token) ==
    IF blacklisted(token) THEN token_blacklist
    ELSE token_blacklist \cup {[token |-> token, expires_at |-> token.exp]}

\* auth_service.authenticate_user (the password is taken as right)
login(user_id) ==
    /\ users[user_id].is_active
    /\ users[user_id].role # "pending"
    /\ tokens' = tokens \cup create_tokens(user_id)
    /\ UNCHANGED <<users, directories, permissions, files, reqs, token_blacklist, now>>

\* auth_service.logout: one insert; a duplicate makes it answer False
logout(token) ==
    /\ decode_token(token)
    /\ ~blacklisted(token)
    /\ token_blacklist' = blacklist_insert(token)
    /\ UNCHANGED <<users, directories, permissions, files, reqs, tokens, now>>

\* refresh_access_token: the reads and checks before create_tokens
refresh_access_token_check(p, token) ==
    /\ reqs[p].pc = "idle"
    /\ refresh_token_status(token) = "ok"
    /\ reqs' = [reqs EXCEPT ![p] =
          [op |-> "refresh_access_token", pc |-> "insert", token |-> token]]
    /\ UNCHANGED <<users, directories, permissions, files, token_blacklist, tokens, now>>

\* refresh_access_token: create_tokens and blacklist.insert_one; on
\* DuplicateKeyError the request ends without a Token
refresh_access_token_insert(p) ==
    /\ reqs[p].op = "refresh_access_token" /\ reqs[p].pc = "insert"
    /\ LET token == reqs[p].token
           inserted == blacklist_insert(token)
       IN  IF inserted = token_blacklist
           THEN /\ reqs' = [reqs EXCEPT ![p] = Idle]
                /\ UNCHANGED <<token_blacklist, tokens>>
           ELSE /\ token_blacklist' = inserted
                /\ tokens' = tokens \cup create_tokens(token.sub)
                /\ reqs' = [reqs EXCEPT ![p] =
                      [op |-> "refresh_access_token", pc |-> "return", token |-> token]]
    /\ UNCHANGED <<users, directories, permissions, files, now>>

\* refresh_access_token: return Token(...)
refresh_access_token_return(p) ==
    /\ reqs[p].op = "refresh_access_token" /\ reqs[p].pc = "return"
    /\ reqs' = [reqs EXCEPT ![p] = Idle]
    /\ UNCHANGED <<users, directories, permissions, files, token_blacklist, tokens, now>>

\* the TTL index on expires_at (expireAfterSeconds=0): the monitor removes the
\* documents whose expires_at has been reached
ttl_monitor ==
    /\ \E b \in token_blacklist : b.expires_at <= now
    /\ token_blacklist' = {b \in token_blacklist : ~(b.expires_at <= now)}
    /\ UNCHANGED <<users, directories, permissions, files, reqs, tokens, now>>

\* a second passes
tick ==
    /\ now < MaxTime
    /\ now' = now + 1
    /\ UNCHANGED <<users, directories, permissions, files, reqs, token_blacklist, tokens>>

\* SpecAuth: logins, logouts and interleaved refresh requests under the clock
NextAuth ==
    \/ \E u \in Users : login(u)
    \/ \E t \in tokens : logout(t)
    \/ \E p \in Procs, t \in tokens : refresh_access_token_check(p, t)
    \/ \E p \in Procs : refresh_access_token_insert(p)
    \/ \E p \in Procs : refresh_access_token_return(p)
    \/ ttl_monitor
    \/ tick

SpecAuth == Init /\ [][NextAuth]_vars

\* ------------------------------------------------------------------ C26
\* C26 (as claimed): a token that is in the blacklist is rejected by
\* get_current_user and by refresh_access_token, in this state and after every
\* step that follows (it never becomes acceptable again); a refresh request
\* returns a token pair only for a token it has itself put on the blacklist,
\* so no two requests return a pair for the same refresh token.
C26_BlacklistedNeverAccepted ==
    /\ [](\A t \in tokens :
            blacklisted(t) => /\ get_current_user_status(t) # "ok"
                              /\ refresh_token_status(t) # "ok")
    /\ [][\A t \in tokens :
            blacklisted(t) => /\ ~(get_current_user_status(t) = "ok")'
                              /\ ~(refresh_token_status(t) = "ok")']_vars
    /\ [][\A p \in Procs :
            (reqs[p].pc = "insert" /\ reqs[p].op = "refresh_access_token"
                /\ reqs'[p].pc = "return")
            => ~blacklisted(reqs[p].token) /\ blacklisted(reqs[p].token)']_vars
    /\ [](\A p, q \in Procs :
            ( /\ reqs[p].op = "refresh_access_token" /\ reqs[p].pc = "return"
              /\ reqs[q].op = "refresh_access_token" /\ reqs[q].pc = "return"
              /\ reqs[p].token = reqs[q].token ) => p = q)

\* ------------------------------------------------------------------ C27
RegrantStep(p) ==
    /\ reqs[p].op = "grant_permission" /\ reqs[p].pc = "write"
    /\ reqs[p].existing # NoId
    /\ reqs'[p].pc = "idle"

\* C27: every stored grant of a stored directory has a grantee other than the
\* directory's owner and was granted by that owner; a grant_permission for a
\* pair that already has a grant replaces the capability set of that record
\* and leaves its user_id, directory_id, granted_by and created_at, and every
\* other record, as they are.
C27_GrantRecord ==
    /\ [](\A g \in permissions :
            g.directory_id \in StoredDirs =>
               /\ g.user_id # directories[g.directory_id].owner_id
               /\ g.granted_by = directories[g.directory_id].owner_id)
    /\ [][\A p \in Procs :
            RegrantStep(p) =>
               /\ {g.id : g \in permissions'} = {g.id : g \in permissions}
               /\ \A g \in permissions : \E h \in permissions' :
                     /\ h.id = g.id
                     /\ h.user_id = g.user_id
                     /\ h.directory_id = g.directory_id
                     /\ h.granted_by = g.granted_by
                     /\ h.created_at = g.created_at
                     /\ h.permissions = IF g.id = reqs[p].existing
                                        THEN reqs[p].perms ELSE g.permissions]_vars

\* a grant_permission at its write for a pair whose stored grant has another
\* capability set
C27_Witness ==
    \E p \in Procs : \E g \in permissions :
        /\ reqs[p].op = "grant_permission" /\ reqs[p].pc = "write"
        /\ reqs[p].existing = g.id
        /\ g.permissions # reqs[p].perms
        /\ g.directory_id \in StoredDirs

\* ------------------------------------------------------------------ C28
\* C28 (as claimed): for a non-owner, check_permission is true only when a
\* grant of the user attached to a stored directory of d's parent chain has
\* the action in its set; a grant whose directory_id names no stored directory
\* does not make it true.
C28_OnlyStoredDirectoriesConfer ==
    \A <<u, d>> \in NonOwnerPairs : \A a \in PermissionType :
        check_permission(u, d, a) =>
            \E g \in permissions :
                /\ g.user_id = u
                /\ g.directory_id \in SeqToSet(StoredChain(d))
                /\ a \in g.permissions

\* ------------------------------------------------------------------ C29
\* C29 (as claimed): for a user who is not super_admin, every directory in the
\* forest of get_directory_tree passes the read check of the GET directory
\* handler (public, owner, or can_access_directory).
C29_VisibleImpliesReadable ==
    \A u \in Users :
        users[u].role # "super_admin" =>
            \A d \in SeqToSet(tree_nodes(u)) : get_directory_allowed(u, d)

\* ------------------------------------------------------------------ C30
\* C30 (as claimed): when cascade deletes are interleaved with creates,
\* uploads and grants, then once no request is in flight every parent_id of a
\* stored directory, and every directory_id of a stored file or grant, names
\* a stored directory.
C30_ReferentialIntegrity ==
    (\A p \in Procs : reqs[p] = Idle) =>
        /\ \A d \in StoredDirs :
              directories[d].parent_id # NoId => directories[d].parent_id \in StoredDirs
        /\ \A f \in DOMAIN files : files[f].directory_id \in StoredDirs
        /\ \A g \in permissions : g.directory_id \in StoredDirs

====
